---- MODULE Spec2Model ----
(***************************************************************************)
(* libdougvm: the frame-based trampoline interpreter of src/libdougvm.     *)
(*                                                                         *)
(* CallStack, CallFrame and VirtualMachine are modelled from lib.rs.  The  *)
(* Operation trait (bytecode/mod.rs) is an open extension point with no    *)
(* concrete opcode, so an operation is any finite sequence of CallStack    *)
(* calls on the frame it is given, ended by an OpAction or an OpError.     *)
(*                                                                         *)
(* The chain of Box<CallFrame> parent links is the sequence `frames`: the  *)
(* outermost frame first, the VM's current frame last, <<>> for None.      *)
(* A cursor is held as the value `cursor as isize`: the usize of the code  *)
(* is that value modulo 2^64, so a negative cursor here is a usize above   *)
(* every Vec length.                                                       *)
(***************************************************************************)
EXTENDS Integers, Sequences, FiniteSets, TLC

\* ------------------------------------------------------------------------
\* Bounds of the model
MaxCells == 6        \* memory: cells that the frames of the chain may hold together
CursorBound == 1     \* a Jump is taken only when it leaves |cursor| within this
MaxCsLocal == 1      \* largest local index in the CallStack-only runs
MaxCsStack == 3      \* operand stack cells in the CallStack-only runs
IsizeBits == 4       \* width of usize and isize (the target's pointer width, scaled down)

\* ------------------------------------------------------------------------
\* Data: Value, Function, NativeFn (crate::datamodel, opaque to this core)
None == "None"
\* The values that operations, arguments, natives and returns carry: the empty
\* Value and one other, which is also the module reference of G.
Values == {None, "mG"}
Functions == { [name |-> "F", module |-> "mF", nops |-> 2],
               [name |-> "G", module |-> "mG", nops |-> 1] }
NoFn == [name |-> "-", module |-> None, nops |-> 0]
ArgLists == { <<>>, <<None, "mG">> }
Offsets == {-2, -1, 1}
Natives == {"first", "last"}
\* An optional operation index: <<>> for none, <<c>> for index c
NoIdx == <<>>

ApplyNative(nf, args) ==
    IF args = <<>> THEN None
    ELSE IF nf = "first" THEN args[1] ELSE args[Len(args)]

\* OpAction
ActNone == [kind |-> "None", d |-> 0, f |-> NoFn, nf |-> "-", args |-> <<>>, v |-> None]
ActJump(d) == [ActNone EXCEPT !.kind = "Jump", !.d = d]
ActCall(f, args) == [ActNone EXCEPT !.kind = "Call", !.f = f, !.args = args]
ActCallNative(nf, args) == [ActNone EXCEPT !.kind = "CallNative", !.nf = nf, !.args = args]
ActReturn(v) == [ActNone EXCEPT !.kind = "Return", !.v = v]
Actions == {ActNone} \cup {ActJump(d) : d \in Offsets}
             \cup {ActCall(f, a) : f \in Functions, a \in ArgLists}
             \cup {ActCallNative(nf, a) : nf \in Natives, a \in ArgLists}
             \cup {ActReturn(v) : v \in Values}

\* OpError
NoErr == [e |-> "-", idx |-> 0]
StackEmpty == [e |-> "StackEmpty", idx |-> 0]
LocalRead(i) == [e |-> "LocalRead", idx |-> i]
BadType == [e |-> "BadType", idx |-> 0]
OpErrors == {StackEmpty, BadType, LocalRead(1)}

\* ------------------------------------------------------------------------
\* CallStack
CallStackNew == [stack |-> <<>>, locals |-> <<>>]

\* load that hands out the empty Value for a missing slot
LoadDefaulting(cs, index) ==
    IF index < Len(cs.locals)
    THEN [ok |-> TRUE, val |-> cs.locals[index + 1], err |-> NoErr]
    ELSE [ok |-> TRUE, val |-> None, err |-> NoErr]

Load(cs, index) ==
    IF index < Len(cs.locals)
    THEN [ok |-> TRUE, val |-> cs.locals[index + 1], err |-> NoErr]
    ELSE [ok |-> FALSE, val |-> None, err |-> LocalRead(index)]

\* resize_with called without the `index >= len` test: it truncates
GetMutOrResizeAlways(cs, index) ==
    IF index >= Len(cs.locals)
    THEN [cs EXCEPT !.locals = cs.locals \o [j \in 1..(index + 1 - Len(cs.locals)) |-> None]]
    ELSE [cs EXCEPT !.locals = SubSeq(cs.locals, 1, index + 1)]

GetMutOrResize(cs, index) ==
    IF index >= Len(cs.locals)
    THEN [cs EXCEPT !.locals = cs.locals \o [j \in 1..(index + 1 - Len(cs.locals)) |-> None]]
    ELSE cs

Store(cs, index, val) ==
    LET r == GetMutOrResize(cs, index)
    IN  [r EXCEPT !.locals[index + 1] = val]

\* swap that writes the local but hands the caller's own value back
SwapKeepsValue(cs, index, val) ==
    LET r == GetMutOrResize(cs, index)
    IN  [cs |-> [r EXCEPT !.locals[index + 1] = val], val |-> val]

Swap(cs, index, val) ==
    LET r == GetMutOrResize(cs, index)
    IN  [cs |-> [r EXCEPT !.locals[index + 1] = val], val |-> r.locals[index + 1]]

\* push that inserts at the bottom of the operand stack
PushBottom(cs, val) == [cs EXCEPT !.stack = <<val>> \o cs.stack]

Push(cs, val) == [cs EXCEPT !.stack = Append(cs.stack, val)]

\* pop that hands out the empty Value when the operand stack is empty
PopDefaulting(cs) ==
    IF cs.stack = <<>>
    THEN [cs |-> cs, ok |-> TRUE, val |-> None, err |-> NoErr]
    ELSE [cs |-> [cs EXCEPT !.stack = SubSeq(cs.stack, 1, Len(cs.stack) - 1)],
          ok |-> TRUE, val |-> cs.stack[Len(cs.stack)], err |-> NoErr]

Pop(cs) ==
    IF cs.stack = <<>>
    THEN [cs |-> cs, ok |-> FALSE, val |-> None, err |-> StackEmpty]
    ELSE [cs |-> [cs EXCEPT !.stack = SubSeq(cs.stack, 1, Len(cs.stack) - 1)],
          ok |-> TRUE, val |-> cs.stack[Len(cs.stack)], err |-> NoErr]

\* ------------------------------------------------------------------------
\* CallFrame (the parent link is the position in `frames`)
\* a frame whose slot 0 is created but left empty
CallFrameNewEmptySlot(function) ==
    [function |-> function, cursor |-> 0,
     stack |-> Store(CallStackNew, 0, None)]

CallFrameNew(function) ==
    [function |-> function, cursor |-> 0,
     stack |-> Store(CallStackNew, 0, function.module)]

FramePush(frame, val) == [frame EXCEPT !.stack = Push(frame.stack, val)]

\* The cursor is kept as `cursor as isize`: the usize bit pattern read as a
\* signed number, so a negative cursor is a usize above isize::MAX.
IsizeMin == -(2 ^ (IsizeBits - 1))
IsizeMax == 2 ^ (IsizeBits - 1) - 1

\* `cursor as isize + index as isize` leaves the range of isize
AddOverflows(cursor, index) ==
    cursor + index < IsizeMin \/ cursor + index > IsizeMax

\* two's complement wrap of a sum into isize
WrapIsize(sum) == ((sum - IsizeMin) % (2 ^ IsizeBits)) + IsizeMin

\* jump that counts from the operation that jumps, not from the one after it
FrameJumpFromOp(frame, index) == [frame EXCEPT !.cursor = frame.cursor - 1 + index]

FrameJump(frame, index) == [frame EXCEPT !.cursor = WrapIsize(frame.cursor + index)]

\* a fetch that accepts the position one past the last operation
OpsGetInclusive(frame) == frame.cursor >= 0 /\ frame.cursor <= frame.function.nops

\* function.ops.get(cursor): Some exactly for 0 <= cursor < ops.len()
OpsGet(frame) == frame.cursor >= 0 /\ frame.cursor < frame.function.nops

\* an exec that fetches the operation and leaves the cursor where it was
FrameExecNoAdvance(frame) ==
    IF OpsGet(frame)
    THEN [fetched |-> TRUE, frame |-> frame]
    ELSE [fetched |-> FALSE, frame |-> frame]

\* exec up to the dispatch of the operation: the fetch and the cursor step
FrameExec(frame) ==
    IF OpsGet(frame)
    THEN [fetched |-> TRUE, frame |-> [frame EXCEPT !.cursor = frame.cursor + 1]]
    ELSE [fetched |-> FALSE, frame |-> frame]

\* ------------------------------------------------------------------------
\* VirtualMachine::process, one operator per match arm.  Each yields the new
\* chain, the VmState it returns and whether an unwrap() met None (panic).
\* the argument loop run from the last argument to the first
RECURSIVE PushArgsReversed(_, _)
PushArgsReversed(callee, args) ==
    IF args = <<>> THEN callee
    ELSE PushArgsReversed(FramePush(callee, args[Len(args)]), SubSeq(args, 1, Len(args) - 1))

RECURSIVE PushArgs(_, _)
PushArgs(callee, args) ==
    IF args = <<>> THEN callee
    ELSE PushArgs(FramePush(callee, Head(args)), Tail(args))

Outcome(fs, st, v) == [frames |-> fs, st |-> st, v |-> v]

ProcessNone(fs) == Outcome(fs, "Running", None)

\* a jump to an absolute position instead of a displacement
ProcessJumpAbsolute(fs, dest) ==
    IF fs = <<>> THEN Outcome(fs, "panic", None)
    ELSE Outcome([fs EXCEPT ![Len(fs)].cursor = dest], "Running", None)

ProcessJump(fs, dest) ==
    IF fs = <<>> THEN Outcome(fs, "panic", None)
    ELSE Outcome([fs EXCEPT ![Len(fs)] = FrameJump(@, dest)], "Running", None)

\* The Jump arm as the build makes it: with overflow checks (the default of a
\* debug build) the addition in jump panics when it overflows, without them
\* it wraps.
ProcessJumpBuilt(fs, dest, checks) ==
    IF fs # <<>> /\ checks /\ AddOverflows(fs[Len(fs)].cursor, dest)
    THEN Outcome(fs, "panic", None)
    ELSE ProcessJump(fs, dest)

\* a call without the swap of self.frame into callee.parent: the chain is lost
ProcessCallNoParent(fs, func, args) ==
    Outcome(<<PushArgs(CallFrameNew(func), args)>>, "Running", None)

ProcessCall(fs, func, args) ==
    Outcome(Append(fs, PushArgs(CallFrameNew(func), args)), "Running", None)

\* a native call whose result is thrown away
ProcessCallNativeNoPush(fs, nf, args) ==
    IF fs = <<>> THEN Outcome(fs, "panic", None)
    ELSE Outcome(fs, "Running", None)

ProcessCallNative(fs, nf, args) ==
    IF fs = <<>> THEN Outcome(fs, "panic", None)
    ELSE Outcome([fs EXCEPT ![Len(fs)] = FramePush(@, ApplyNative(nf, args))],
                 "Running", None)

\* a return that hands the chain back to the parent and loses the value
ProcessReturnDropsValue(fs, val) ==
    IF fs = <<>> THEN Outcome(fs, "panic", None)
    ELSE IF Len(fs) > 1
         THEN Outcome(SubSeq(fs, 1, Len(fs) - 1), "Running", None)
         ELSE Outcome(<<>>, "Exited", val)

ProcessReturn(fs, val) ==
    IF fs = <<>> THEN Outcome(fs, "panic", None)
    ELSE IF Len(fs) > 1
         THEN Outcome([SubSeq(fs, 1, Len(fs) - 1) EXCEPT ![Len(fs) - 1] = FramePush(@, val)],
                      "Running", None)
         ELSE Outcome(<<>>, "Exited", val)

VmProcess(fs, action) ==
    CASE action.kind = "None" -> ProcessNone(fs)
      [] action.kind = "Jump" -> ProcessJump(fs, action.d)
      [] action.kind = "Call" -> ProcessCall(fs, action.f, action.args)
      [] action.kind = "CallNative" -> ProcessCallNative(fs, action.nf, action.args)
      [] action.kind = "Return" -> ProcessReturn(fs, action.v)

\* ------------------------------------------------------------------------
\* Results handed back to the caller of step, process and run_until_exited
Res(t, act, err, v) == [t |-> t, act |-> act, err |-> err, v |-> v]
NoResult == Res("-", ActNone, NoErr, None)
StepOk(a) == Res("StepOk", a, NoErr, None)
StepErr(e) == Res("StepErr", ActNone, e, None)
Running == Res("Running", ActNone, NoErr, None)
Exited(v) == Res("Exited", ActNone, NoErr, v)
RunOk(v) == Res("RunOk", ActNone, NoErr, v)
RunErr(e) == Res("RunErr", ActNone, e, None)

\* run_until_exited: what the loop does with the result of step and with the
\* result of process.  `go` is TRUE when the loop goes on.
\* a loop that skips a failed step and goes on
RunAfterStepSkipsError(r) == [go |-> TRUE, result |-> r]

RunAfterStep(r) ==
    IF r.t = "StepErr" THEN [go |-> FALSE, result |-> RunErr(r.err)]
    ELSE [go |-> TRUE, result |-> r]

\* a loop that goes on after process has returned Exited
RunAfterProcessKeepsGoing(r) == [go |-> TRUE, result |-> r]

RunAfterProcess(r) ==
    IF r.t = "Running" THEN [go |-> TRUE, result |-> r]
    ELSE [go |-> FALSE, result |-> RunOk(r.v)]

\* ------------------------------------------------------------------------
\* State
VARIABLES
    frames,      \* VirtualMachine.frame and the parent links below it
    pc,          \* "idle": between calls; "op": inside Operation::exec; "panic"
    mode,        \* "run" inside run_until_exited, "manual" when the host calls step/process
    result,      \* what the last call of step / process / run_until_exited returned
    hist,        \* per frame: the caller as it was when the Call was processed; slot 0 written
    execIdx,     \* index of the operation fetched by the last step, NoIdx if none
    jumpTarget,  \* c + 1 + d after a Jump(d) yielded at index c was processed
    lastProc,    \* kind of the action given to the last process, "-" after a step
    callsNet,    \* Calls processed minus Returns processed
    peak,        \* deepest chain since run_until_exited was entered, 0 outside it
    fwd,         \* steps of a run_until_exited that has processed no Call and no
                 \* backward Jump; NoIdx once it has, and outside run_until_exited
    cs,          \* a CallStack on its own (CallStack-only runs)
    targeted,    \* indices that store or swap were called with on cs
    ret,         \* the last CallStack call on cs and what it returned
    lifo         \* the pushes on cs since the last break, and the pops that followed them

vmVars == <<frames, pc, mode, result, hist, execIdx, jumpTarget, lastProc, callsNet, peak, fwd>>
csVars == <<cs, targeted, ret, lifo>>
vars == <<frames, pc, mode, result, hist, execIdx, jumpTarget, lastProc, callsNet, peak, fwd,
          cs, targeted, ret, lifo>>

NoSnap == [stack |-> CallStackNew, cursor |-> 0, k |-> NoIdx, depth |-> 0]
Hist(snap) == [snap |-> snap, touched0 |-> FALSE]
NoRet == [op |-> "-", idx |-> 0, arg |-> None, ok |-> TRUE, val |-> None, err |-> NoErr]

Cur == frames[Len(frames)]

InitVm ==
    /\ \E func \in Functions : frames = <<CallFrameNew(func)>>
    /\ pc = "idle"
    /\ mode = "manual"
    /\ result = NoResult
    /\ hist = <<Hist(NoSnap)>>
    /\ execIdx = NoIdx
    /\ jumpTarget = NoIdx
    /\ lastProc = "-"
    /\ callsNet = 0
    /\ peak = 0
    /\ fwd = NoIdx

\* A run of pushes followed by pops: the operand stack before the first push
\* of the run, the values pushed, the values the pops after them returned.
Lifo(base, ins, outs) == [base |-> base, ins |-> ins, outs |-> outs]

\* A push after a pop starts a new run; so does a pop beyond the run's pushes.
LifoPush(l, before, v) ==
    IF l.outs = <<>> THEN Lifo(l.base, Append(l.ins, v), <<>>)
    ELSE Lifo(before, <<v>>, <<>>)

LifoPop(l, p) ==
    IF p.ok /\ Len(l.outs) < Len(l.ins) THEN Lifo(l.base, l.ins, Append(l.outs, p.val))
    ELSE Lifo(p.cs.stack, <<>>, <<>>)

InitCs ==
    /\ cs = CallStackNew
    /\ targeted = {}
    /\ ret = NoRet
    /\ lifo = Lifo(<<>>, <<>>, <<>>)

\* A new VM that the host drives with step and process
Init == InitVm /\ InitCs

\* A new VM on which the host has called run_until_exited
InitRun ==
    /\ \E func \in Functions : frames = <<CallFrameNew(func)>>
    /\ pc = "idle"
    /\ mode = "run"
    /\ result = NoResult
    /\ hist = <<Hist(NoSnap)>>
    /\ execIdx = NoIdx
    /\ jumpTarget = NoIdx
    /\ lastProc = "-"
    /\ callsNet = 0
    /\ peak = 1
    /\ fwd = <<0>>
    /\ InitCs

\* ------------------------------------------------------------------------
\* The bounds.  Memory: a frame takes one cell for itself and one for each
\* Value of its operand stack and of its locals, so the depth of the chain is
\* limited by the memory only.  A slot 0 that was given another content than
\* the module reference is counted once more.
Used(frame) ==
    1 + Len(frame.stack.stack) + Len(frame.stack.locals)
      + (IF frame.stack.locals[1] # frame.function.module THEN 1 ELSE 0)

RECURSIVE TotalUsed(_)
TotalUsed(fs) == IF fs = <<>> THEN 0 ELSE Used(Head(fs)) + TotalUsed(Tail(fs))

Bounded(fs) == TotalUsed(fs) <= MaxCells

JumpBounded(fs, a) ==
    (a.kind = "Jump" /\ fs # <<>>) =>
        /\ fs[Len(fs)].cursor <= CursorBound
        /\ fs[Len(fs)].cursor >= -CursorBound

\* ------------------------------------------------------------------------
\* What step hands back.  The loop of run_until_exited holds the action in
\* its variable `action`; a host that calls step itself takes the action away,
\* and the model keeps only whether step returned Ok or which error.
Deliver(r) ==
    IF mode = "run"
    THEN /\ result' = RunAfterStep(r).result
         /\ mode' = IF RunAfterStep(r).go THEN "run" ELSE "manual"
    ELSE /\ result' = Res(r.t, ActNone, r.err, None)
         /\ mode' = mode

\* VirtualMachine::step up to the dispatch of the fetched operation
Step ==
    /\ pc = "idle"
    /\ mode = "run" => result.t \in {"-", "Running"}
    /\ lastProc' = "-"
    /\ IF frames = <<>>
       THEN /\ pc' = "panic"
            /\ UNCHANGED <<frames, mode, result, hist, execIdx, jumpTarget, callsNet, peak, fwd>>
       ELSE LET x == FrameExec(Cur)
            IN  /\ frames' = [frames EXCEPT ![Len(frames)] = x.frame]
                /\ UNCHANGED <<hist, callsNet, peak>>
                /\ fwd' = IF fwd = NoIdx THEN NoIdx ELSE <<fwd[1] + 1>>
                /\ IF x.fetched
                   THEN /\ pc' = "op"
                        /\ execIdx' = <<Cur.cursor>>
                        /\ result' = NoResult
                        /\ UNCHANGED <<mode, jumpTarget>>
                   ELSE /\ pc' = "idle"
                        /\ execIdx' = NoIdx
                        /\ jumpTarget' = NoIdx
                        /\ Deliver(StepOk(ActReturn(None)))

\* The CallStack calls the fetched operation makes on the frame's stack
\* (load takes &self and changes nothing: it is not a step of the VM)
OpStore(i, v) ==
    /\ pc = "op"
    /\ frames' = [frames EXCEPT ![Len(frames)].stack = Store(@, i, v)]
    /\ Bounded(frames')
    /\ hist' = [hist EXCEPT ![Len(hist)].touched0 = @ \/ i = 0]
    /\ UNCHANGED <<pc, mode, result, execIdx, jumpTarget, lastProc, callsNet, peak, fwd>>

OpSwap(i, v) ==
    /\ pc = "op"
    /\ frames' = [frames EXCEPT ![Len(frames)].stack = Swap(@, i, v).cs]
    /\ Bounded(frames')
    /\ hist' = [hist EXCEPT ![Len(hist)].touched0 = @ \/ i = 0]
    /\ UNCHANGED <<pc, mode, result, execIdx, jumpTarget, lastProc, callsNet, peak, fwd>>

OpPush(v) ==
    /\ pc = "op"
    /\ frames' = [frames EXCEPT ![Len(frames)].stack = Push(@, v)]
    /\ Bounded(frames')
    /\ UNCHANGED <<pc, mode, result, hist, execIdx, jumpTarget, lastProc, callsNet, peak, fwd>>

\* an operation that reaches below its own frame and pops from the caller
OpPopFromParent ==
    /\ pc = "op"
    /\ frames' = IF Len(frames) > 1
                 THEN [frames EXCEPT ![Len(frames) - 1].stack = Pop(@).cs]
                 ELSE [frames EXCEPT ![Len(frames)].stack = Pop(@).cs]
    /\ UNCHANGED <<pc, mode, result, hist, execIdx, jumpTarget, lastProc, callsNet, peak, fwd>>

OpPop ==
    /\ pc = "op"
    /\ frames' = [frames EXCEPT ![Len(frames)].stack = Pop(@).cs]
    /\ UNCHANGED <<pc, mode, result, hist, execIdx, jumpTarget, lastProc, callsNet, peak, fwd>>

\* The operation returns Ok(action) or Err(e); step returns it.  Inside
\* run_until_exited the action goes to process next, so an action that the
\* bounds keep process from taking is not yielded there.
OpYield(a) ==
    /\ pc = "op"
    /\ mode = "run" => /\ Bounded(VmProcess(frames, a).frames)
                       /\ JumpBounded(VmProcess(frames, a).frames, a)
    /\ pc' = "idle"
    /\ jumpTarget' = NoIdx
    /\ Deliver(StepOk(a))
    /\ UNCHANGED <<frames, hist, execIdx, lastProc, callsNet, peak, fwd>>

OpFail(e) ==
    /\ pc = "op"
    /\ pc' = "idle"
    /\ jumpTarget' = NoIdx
    /\ Deliver(StepErr(e))
    /\ UNCHANGED <<frames, hist, execIdx, lastProc, callsNet, peak, fwd>>

\* VirtualMachine::process(a): by the loop of run_until_exited with the action
\* step returned, or by the host with any action
Process(a) ==
    /\ pc = "idle"
    /\ mode = "run" => result = StepOk(a)
    /\ LET o == VmProcess(frames, a)
           fromStep == mode = "run"
       IN  /\ frames' = o.frames
           /\ Bounded(frames')
           /\ JumpBounded(frames', a)
           /\ lastProc' = a.kind
           /\ execIdx' = NoIdx
           /\ IF o.st = "panic"
              THEN /\ pc' = "panic"
                   /\ UNCHANGED <<mode, result, hist, jumpTarget, callsNet, peak, fwd>>
              ELSE /\ pc' = "idle"
                   /\ jumpTarget' = IF a.kind = "Jump" /\ fromStep /\ execIdx # NoIdx
                                    THEN <<execIdx[1] + 1 + a.d>> ELSE NoIdx
                   /\ fwd' = IF a.kind = "Call" \/ (a.kind = "Jump" /\ a.d < 0)
                             THEN NoIdx ELSE fwd
                   /\ peak' = IF fromStep /\ Len(o.frames) > peak
                              THEN Len(o.frames) ELSE peak
                   /\ callsNet' = CASE a.kind = "Call" -> callsNet + 1
                                    [] a.kind = "Return" -> callsNet - 1
                                    [] OTHER -> callsNet
                   /\ hist' = CASE a.kind = "Call" ->
                                     Append(hist,
                                        Hist(IF frames = <<>> THEN NoSnap
                                             ELSE [stack |-> Cur.stack, cursor |-> Cur.cursor,
                                                   k |-> IF fromStep THEN execIdx ELSE NoIdx,
                                                   depth |-> Len(frames)]))
                                [] a.kind = "Return" -> SubSeq(hist, 1, Len(hist) - 1)
                                [] OTHER -> hist
                   /\ IF mode = "run"
                      THEN /\ result' = RunAfterProcess(Res(o.st, ActNone, NoErr, o.v)).result
                           /\ mode' = IF RunAfterProcess(Res(o.st, ActNone, NoErr, o.v)).go
                                      THEN "run" ELSE "manual"
                      ELSE /\ result' = Res(o.st, ActNone, NoErr, o.v)
                           /\ mode' = mode

\* process(Jump(d)) by the host, wherever it takes the cursor, in either build
JumpAnywhere(d) ==
    /\ pc = "idle"
    /\ frames # <<>>
    /\ lastProc' = "Jump"
    /\ execIdx' = NoIdx
    /\ \E checks \in BOOLEAN :
          LET o == ProcessJumpBuilt(frames, d, checks)
          IN  /\ frames' = o.frames
              /\ IF o.st = "panic"
                 THEN /\ pc' = "panic"
                      /\ UNCHANGED <<mode, result, hist, jumpTarget, callsNet, peak, fwd>>
                 ELSE /\ pc' = "idle"
                      /\ result' = Res(o.st, ActNone, NoErr, o.v)
                      /\ jumpTarget' = NoIdx
                      /\ UNCHANGED <<mode, hist, callsNet, peak, fwd>>

Next ==
    \/ Step /\ UNCHANGED csVars
    \/ \E i \in 0..MaxCells, v \in Values : OpStore(i, v) /\ UNCHANGED csVars
    \/ \E i \in 0..MaxCells, v \in Values : OpSwap(i, v) /\ UNCHANGED csVars
    \/ \E v \in Values : OpPush(v) /\ UNCHANGED csVars
    \/ OpPop /\ UNCHANGED csVars
    \/ \E a \in Actions : OpYield(a) /\ UNCHANGED csVars
    \/ \E e \in OpErrors : OpFail(e) /\ UNCHANGED csVars
    \/ \E a \in Actions : Process(a) /\ UNCHANGED csVars

Spec == Init /\ [][Next]_vars

\* ------------------------------------------------------------------------
\* A CallStack on its own, from CallStack::new, under any calls of its methods
Ret(op, idx, arg, ok, val, err) ==
    [op |-> op, idx |-> idx, arg |-> arg, ok |-> ok, val |-> val, err |-> err]

CsLoad(i) ==
    /\ ret' = Ret("load", i, None, Load(cs, i).ok, Load(cs, i).val, Load(cs, i).err)
    /\ UNCHANGED <<cs, targeted, lifo>>

CsStore(i, v) ==
    /\ cs' = Store(cs, i, v)
    /\ targeted' = targeted \cup {i}
    /\ ret' = Ret("store", i, v, TRUE, None, NoErr)
    /\ UNCHANGED lifo

CsSwap(i, v) ==
    /\ cs' = Swap(cs, i, v).cs
    /\ targeted' = targeted \cup {i}
    /\ ret' = Ret("swap", i, v, TRUE, Swap(cs, i, v).val, NoErr)
    /\ UNCHANGED lifo

CsPush(v) ==
    /\ Len(cs.stack) < MaxCsStack
    /\ cs' = Push(cs, v)
    /\ ret' = Ret("push", 0, v, TRUE, None, NoErr)
    /\ lifo' = LifoPush(lifo, cs.stack, v)
    /\ UNCHANGED targeted

CsPop ==
    /\ cs' = Pop(cs).cs
    /\ ret' = Ret("pop", 0, None, Pop(cs).ok, Pop(cs).val, Pop(cs).err)
    /\ lifo' = LifoPop(lifo, Pop(cs))
    /\ UNCHANGED targeted

NextCs ==
    \/ \E i \in 0..MaxCsLocal : CsLoad(i) /\ UNCHANGED vmVars
    \/ \E i \in 0..MaxCsLocal, v \in Values : CsStore(i, v) /\ UNCHANGED vmVars
    \/ \E i \in 0..MaxCsLocal, v \in Values : CsSwap(i, v) /\ UNCHANGED vmVars
    \/ \E v \in Values : CsPush(v) /\ UNCHANGED vmVars
    \/ CsPop /\ UNCHANGED vmVars

SpecCs == Init /\ [][NextCs]_vars

\* run_until_exited: the loop is the only caller of step and process, and the
\* run is over once it has returned
NextRun ==
    \/ mode = "run" /\ Step /\ UNCHANGED csVars
    \/ \E i \in 0..MaxCells, v \in Values : mode = "run" /\ OpStore(i, v) /\ UNCHANGED csVars
    \/ \E i \in 0..MaxCells, v \in Values : mode = "run" /\ OpSwap(i, v) /\ UNCHANGED csVars
    \/ \E v \in Values : mode = "run" /\ OpPush(v) /\ UNCHANGED csVars
    \/ mode = "run" /\ OpPop /\ UNCHANGED csVars
    \/ \E a \in Actions : mode = "run" /\ OpYield(a) /\ UNCHANGED csVars
    \/ \E e \in OpErrors : mode = "run" /\ OpFail(e) /\ UNCHANGED csVars
    \/ \E a \in Actions : mode = "run" /\ Process(a) /\ UNCHANGED csVars

SpecRun == InitRun /\ [][NextRun]_vars

\* run_until_exited as the machine runs it: it is sequential code, so the
\* loop goes on to its next call, and a call of step or process, and the
\* operation inside step, returns
RunStep == mode = "run" /\ Step /\ UNCHANGED csVars

RunOpReturns ==
    /\ mode = "run"
    /\ (\E a \in Actions : OpYield(a)) \/ (\E e \in OpErrors : OpFail(e))
    /\ UNCHANGED csVars

RunProcess == \E a \in Actions : mode = "run" /\ Process(a) /\ UNCHANGED csVars

SpecRunFair ==
    /\ InitRun
    /\ [][NextRun]_vars
    /\ WF_vars(RunStep)
    /\ WF_vars(RunOpReturns)
    /\ WF_vars(RunProcess)

\* A host that calls step and process(Jump(d)) on a new VM in any order: the
\* cursor goes wherever the jumps add up to
NextJump ==
    \/ \E d \in Offsets : JumpAnywhere(d) /\ UNCHANGED csVars
    \/ Step /\ UNCHANGED csVars
    \/ \E v \in Values : OpPush(v) /\ UNCHANGED csVars
    \/ OpPop /\ UNCHANGED csVars
    \/ \E a \in Actions : OpYield(a) /\ UNCHANGED csVars
    \/ \E e \in OpErrors : OpFail(e) /\ UNCHANGED csVars

SpecJump == Init /\ [][NextJump]_vars

TypeOK ==
    /\ pc \in {"idle", "op", "panic"}
    /\ mode \in {"run", "manual"}
    /\ Len(hist) = Len(frames)
    /\ Bounded(frames)

\* ------------------------------------------------------------------------
\* Properties of CallStack (checked under SpecCs)

Max(S) == CHOOSE m \in S : \A j \in S : j <= m

\* C5 as stated: a load of an index that no store or swap was ever called
\* with fails with LocalRead(index), whichever other indices were stored.
C5_LoadNeverTargetedFails ==
    (ret.op = "load" /\ ret.idx \notin targeted)
        => (~ret.ok /\ ret.err = LocalRead(ret.idx))

\* C5 amended: a load of an index above every index that store or swap was
\* called with fails with LocalRead(index); a load of an index that was never
\* targeted but lies below a targeted one succeeds with the empty Value.
C5_LoadAboveTargetedFails ==
    ret.op = "load" =>
        /\ (\A j \in targeted : j < ret.idx)
              => (~ret.ok /\ ret.err = LocalRead(ret.idx))
        /\ (ret.idx \notin targeted /\ \E j \in targeted : j > ret.idx)
              => (ret.ok /\ ret.val = None)

C5_Witness ==
    /\ ret.op = "load" /\ ~ret.ok
    /\ targeted # {} /\ ret.idx > Max(targeted)
    /\ cs.stack # <<>>

\* C6: after store(i, v) load(i) returns v; the slots between the old size and
\* i load as the empty Value; the other locals that existed and the operand
\* stack are as before.
C6_StoreLoadRoundTrip ==
    [][ret'.op = "store" =>
          LET i == ret'.idx
              v == ret'.arg
              old == Len(cs.locals)
          IN  /\ Load(cs', i).ok /\ Load(cs', i).val = v
              /\ \A j \in old..(i - 1) : Load(cs', j).ok /\ Load(cs', j).val = None
              /\ \A j \in 0..(old - 1) : j # i => Load(cs', j) = Load(cs, j)
              /\ cs'.stack = cs.stack]_vars

C6_Witness ==
    /\ ret.op = "store" /\ ret.idx = MaxCsLocal /\ ret.arg = "mG"
    /\ targeted = {ret.idx}
    /\ Len(cs.locals) = ret.idx + 1
    /\ \A j \in 1..ret.idx : cs.locals[j] = None
    /\ cs.locals[ret.idx + 1] = "mG"
    /\ cs.stack # <<>>

\* ------------------------------------------------------------------------
\* Properties of run_until_exited (checked under SpecRun)

\* C1: when the Return(v) of a frame is processed, and the Call that created
\* the frame was yielded by the caller's operation at index k with operand
\* stack S and locals L, the caller is current again with stack S \o <<v>>,
\* locals L, cursor k + 1, at the depth it had, below it nothing has changed,
\* and the callee is no longer in the chain.
C1_CallReturnRoundTrip ==
    [][(/\ pc = "idle" /\ result.t = "StepOk" /\ result.act.kind = "Return"
        /\ Len(frames) >= 2
        /\ hist[Len(hist)].snap.k # NoIdx
        /\ lastProc' = "Return")
       => LET n == Len(frames)
              s == hist[n].snap
              v == result.act.v
          IN  /\ Len(frames') = n - 1
              /\ Len(frames') = s.depth
              /\ frames'[n - 1].stack.stack = Append(s.stack.stack, v)
              /\ frames'[n - 1].stack.locals = s.stack.locals
              /\ frames'[n - 1].cursor = s.k[1] + 1
              /\ frames'[n - 1].function = frames[n - 1].function
              /\ \A i \in 1..(n - 2) : frames'[i] = frames[i]
              /\ pc' = "idle" /\ result' = Running]_vars

C1_Witness ==
    /\ mode = "run" /\ lastProc = "Return" /\ result = Running
    /\ Len(frames) = 1
    /\ frames[1].stack.stack = <<None, "mG">>
    /\ frames[1].stack.locals # <<frames[1].function.module>>
    /\ frames[1].cursor = 2

\* C3: after the Jump(d) that the operation at index c yielded has been
\* processed, the next step of the frame fetches the operation at c + 1 + d
\* whenever that is an index of the function.
C3_JumpTarget ==
    [][(/\ pc = "idle" /\ jumpTarget # NoIdx /\ frames # <<>>
        /\ jumpTarget[1] >= 0 /\ jumpTarget[1] < Cur.function.nops)
       => (/\ pc' = "op"
           /\ execIdx' = jumpTarget
           /\ frames' = [frames EXCEPT ![Len(frames)].cursor = jumpTarget[1] + 1])]_vars

C3_Witness ==
    /\ mode = "run" /\ pc = "op"
    /\ jumpTarget = <<1>> /\ execIdx = <<1>>
    /\ Len(frames) = 2

\* C4: a step on a frame whose cursor is not an index of its function returns
\* Return(empty) without error and without running an operation; processed
\* on the outermost frame it ends run_until_exited with the empty Value, on a
\* frame with a parent it pushes the empty Value on the parent, which resumes.
C4_ImplicitReturn ==
    [][/\ (/\ pc = "idle" /\ result.t \in {"-", "Running"} /\ frames # <<>>
           /\ ~(Cur.cursor >= 0 /\ Cur.cursor < Cur.function.nops))
          => (/\ result' = StepOk(ActReturn(None))
              /\ execIdx' = NoIdx
              /\ pc' = "idle" /\ mode' = "run"
              /\ frames' = frames)
       /\ (/\ pc = "idle" /\ result = StepOk(ActReturn(None)) /\ execIdx = NoIdx
           /\ Len(frames) = 1)
          => (result' = RunOk(None) /\ mode' = "manual" /\ frames' = <<>>)
       /\ (/\ pc = "idle" /\ result = StepOk(ActReturn(None)) /\ execIdx = NoIdx
           /\ Len(frames) >= 2)
          => (/\ result' = Running /\ mode' = "run"
              /\ frames' = [SubSeq(frames, 1, Len(frames) - 1)
                              EXCEPT ![Len(frames) - 1].stack.stack = Append(@, None)])
      ]_vars

C4_Witness ==
    /\ mode = "run" /\ pc = "idle"
    /\ result = StepOk(ActReturn(None)) /\ execIdx = NoIdx
    /\ Len(frames) = 2
    /\ Cur.cursor = Cur.function.nops

\* C9: when the operation of a step fails with e, run_until_exited returns
\* Err(e) at once: the chain is as the failing step left it, and after the
\* run has returned the error nothing more happens in it.
C9_ErrorAbort ==
    [][/\ \A e \in OpErrors :
            (pc = "op" /\ OpFail(e))
               => (result' = RunErr(e) /\ mode' = "manual" /\ frames' = frames)
       /\ result.t = "RunErr" => UNCHANGED vars
       /\ result'.t = "RunErr" => pc = "op"
      ]_vars

C9_Witness ==
    /\ result = RunErr(StackEmpty) /\ mode = "manual" /\ pc = "idle"
    /\ Len(frames) = 2
    /\ Cur.cursor = 1

\* ------------------------------------------------------------------------
\* Properties of a VM driven by any calls of step and process (checked under Spec)

\* C2: once process has returned Exited, the next call of step or process,
\* whatever the action, executes no operation, installs no current frame and
\* does not report Running.
C2_ExitedIsTerminal ==
    [][result.t = "Exited"
          => (frames' = <<>> /\ pc' # "op" /\ result'.t # "Running")]_vars

\* C7 as stated: slot 0 of every frame of the chain holds the module
\* reference of the frame's function, whatever the operations call.
C7_ModuleSlotAlways ==
    \A i \in 1..Len(frames) :
        /\ Len(frames[i].stack.locals) >= 1
        /\ frames[i].stack.locals[1] = frames[i].function.module

\* C7 amended: slot 0 of every frame of the chain exists, and holds the module
\* reference of the frame's function for as long as no operation of the
\* frame has called store or swap with index 0.
C7_ModuleSlotUntilWritten ==
    \A i \in 1..Len(frames) :
        /\ Len(frames[i].stack.locals) >= 1
        /\ ~hist[i].touched0 => frames[i].stack.locals[1] = frames[i].function.module

C7_Witness ==
    /\ Len(frames) = 2
    /\ ~hist[1].touched0 /\ ~hist[2].touched0
    /\ frames[1].stack.stack # <<>> /\ frames[2].stack.stack # <<>>
    /\ frames[1].function.module # frames[2].function.module
    /\ frames[2].cursor = 1 /\ pc = "op"

\* C8: while the VM has a current frame, the number of its ancestors is the
\* number of Calls processed minus the number of Returns processed; a
\* processed Call adds one frame, a processed Return on a frame with a parent
\* removes one, and None, Jump, CallNative and every step leave the length.
C8_ChainLength ==
    /\ [](frames # <<>> => Len(frames) - 1 = callsNet)
    /\ [][pc' # "panic" =>
            IF pc = "idle" /\ pc' = "idle" /\ lastProc' = "Call"
            THEN Len(frames') = Len(frames) + 1
            ELSE IF pc = "idle" /\ pc' = "idle" /\ lastProc' = "Return" /\ Len(frames) >= 2
                 THEN Len(frames') = Len(frames) - 1
                 ELSE IF pc = "idle" /\ pc' = "idle" /\ lastProc' = "Return"
                      THEN frames' = <<>>
                      ELSE Len(frames') = Len(frames)]_vars

C8_Witness ==
    /\ Len(frames) = 1 /\ callsNet = 0
    /\ lastProc = "Return" /\ result = Running
    /\ frames[1].stack.stack = <<"mG">>

\* C10: process(Call(f, args)) puts on top of the chain a frame of f with
\* cursor 0, locals <<module of f>> and operand stack args, first argument at
\* the bottom; everything below is the chain as it was; pops on the new frame
\* yield the arguments last to first.
Reverse(sq) == [i \in 1..Len(sq) |-> sq[Len(sq) + 1 - i]]

RECURSIVE PopAll(_)
PopAll(c) == IF Pop(c).ok THEN <<Pop(c).val>> \o PopAll(Pop(c).cs) ELSE <<>>

C10_CallCreatesFrame ==
    [][\A a \in Actions :
          (a.kind = "Call" /\ lastProc' = "Call" /\ Process(a))
             => /\ Len(frames') = Len(frames) + 1
                /\ SubSeq(frames', 1, Len(frames)) = frames
                /\ frames'[Len(frames')].function = a.f
                /\ frames'[Len(frames')].cursor = 0
                /\ frames'[Len(frames')].stack.locals = <<a.f.module>>
                /\ frames'[Len(frames')].stack.stack = a.args
                /\ PopAll(frames'[Len(frames')].stack) = Reverse(a.args)
                /\ result'.t = "Running"]_vars

C10_Witness ==
    /\ lastProc = "Call" /\ result = Running /\ pc = "idle"
    /\ Len(frames) = 2
    /\ frames[1].function.name = "F" /\ frames[1].cursor = 2
    /\ Cur.function.name = "G" /\ Cur.cursor = 0
    /\ Cur.stack.locals = <<"mG">>
    /\ Cur.stack.stack = <<None, "mG">>

\* ------------------------------------------------------------------------
\* Further properties of CallStack (checked under SpecCs)

\* C12: pop on an empty operand stack fails with StackEmpty, and leaves the
\* operand stack empty and the locals as they were.
C12_PopEmptyFails ==
    /\ [][(ret'.op = "pop" /\ cs.stack = <<>>)
            => (~ret'.ok /\ ret'.err = StackEmpty /\ cs' = cs)]_vars
    /\ []((ret.op = "pop" /\ ~ret.ok) => (ret.err = StackEmpty /\ cs.stack = <<>>))

C12_Witness ==
    /\ ret.op = "pop" /\ ~ret.ok /\ ret.err = StackEmpty
    /\ cs.stack = <<>>
    /\ Len(cs.locals) = 2 /\ cs.locals[2] = "mG"

\* C14: in a run of pushes followed by pops, the pops succeed and return the
\* pushed values last to first; when as many were popped as pushed, the
\* operand stack is what it was before the first push of the run.
C14_Lifo ==
    /\ Len(lifo.outs) <= Len(lifo.ins)
    /\ \A j \in 1..Len(lifo.outs) : lifo.outs[j] = lifo.ins[Len(lifo.ins) + 1 - j]
    /\ Len(lifo.outs) = Len(lifo.ins) => cs.stack = lifo.base
    /\ Len(cs.stack) = Len(lifo.base) + Len(lifo.ins) - Len(lifo.outs)

C14_Witness ==
    /\ lifo.base = <<"mG">>
    /\ lifo.ins = <<None, "mG">>
    /\ lifo.outs = <<"mG", None>>
    /\ ret.op = "pop" /\ ret.ok /\ ret.val = None

\* C18: after swap(i, v) local i holds v and the caller holds what local i
\* held, the empty Value if there was no local i; the slots that the growth
\* created below i are empty, the other locals and the operand stack are as
\* before; a second swap with the value handed back puts both back.
C18_SwapExchanges ==
    [][ret'.op = "swap" =>
          LET i == ret'.idx
              v == ret'.arg
              n == Len(cs.locals)
              old == IF i < n THEN cs.locals[i + 1] ELSE None
              back == Swap(cs', i, ret'.val)
          IN  /\ Load(cs', i).ok /\ Load(cs', i).val = v
              /\ ret'.val = old
              /\ \A j \in n..(i - 1) : Load(cs', j).ok /\ Load(cs', j).val = None
              /\ \A j \in 0..(n - 1) : j # i => Load(cs', j) = Load(cs, j)
              /\ cs'.stack = cs.stack
              /\ back.val = v
              /\ Load(back.cs, i).ok /\ Load(back.cs, i).val = old
              /\ back.cs.stack = cs.stack]_vars

C18_Witness ==
    /\ ret.op = "swap" /\ ret.idx = 1 /\ ret.arg = None /\ ret.val = "mG"
    /\ Len(cs.locals) = 2
    /\ cs.locals[1] = "mG" /\ cs.locals[2] = None
    /\ cs.stack # <<>>

\* ------------------------------------------------------------------------
\* Further properties of the VM driven by the host (checked under Spec)

\* C11: process(CallNative(fn, args)) on a VM with a current frame pushes
\* fn(args) on the operand stack of the current frame and returns Running;
\* the current frame is the same frame with the same function, cursor and
\* locals, the chain has the same depth and the ancestors are as they were.
C11_CallNativePushesResult ==
    [][\A a \in Actions :
          (a.kind = "CallNative" /\ lastProc' = "CallNative" /\ frames # <<>> /\ Process(a))
             => /\ Len(frames') = Len(frames)
                /\ \A i \in 1..(Len(frames) - 1) : frames'[i] = frames[i]
                /\ frames'[Len(frames)].function = Cur.function
                /\ frames'[Len(frames)].cursor = Cur.cursor
                /\ frames'[Len(frames)].stack.locals = Cur.stack.locals
                /\ frames'[Len(frames)].stack.stack
                      = Append(Cur.stack.stack, ApplyNative(a.nf, a.args))
                /\ result'.t = "Running"
                /\ pc' = "idle"]_vars

C11_Witness ==
    /\ lastProc = "CallNative" /\ result = Running /\ pc = "idle"
    /\ Len(frames) = 2
    /\ frames[1].cursor = 1
    /\ Cur.stack.stack = <<"mG">>
    /\ Len(Cur.stack.locals) = 2

\* Any part of one call of step: the fetch, a CallStack call of the fetched
\* operation, or the operation's return
InStep ==
    \/ Step
    \/ \E i \in 0..MaxCells, v \in Values : OpStore(i, v) \/ OpSwap(i, v)
    \/ \E v \in Values : OpPush(v)
    \/ OpPop
    \/ \E a \in Actions : OpYield(a)
    \/ \E e \in OpErrors : OpFail(e)

\* C15: a step, whether it returns an action or an error, changes at most
\* the cursor, the operand stack and the locals of the current frame: the
\* chain keeps its depth, the current frame keeps its function, and every
\* ancestor is as it was.
\* The parts of a step are the transitions that start inside the operation
\* (pc = "op") and the fetch, which alone leaves lastProc at "-".
C15_StepTouchesCurrentFrameOnly ==
    [][(pc = "op" \/ (pc = "idle" /\ lastProc' = "-"))
         => /\ Len(frames') = Len(frames)
            /\ \A i \in 1..(Len(frames) - 1) : frames'[i] = frames[i]
            /\ frames # <<>> => frames'[Len(frames)].function = Cur.function]_vars

C15_Witness ==
    /\ pc = "idle" /\ lastProc = "-" /\ result.t = "StepErr"
    /\ Len(frames) = 2
    /\ frames[1].stack.stack # <<>>
    /\ Cur.cursor = 1
    /\ Len(Cur.stack.locals) = 2

\* ------------------------------------------------------------------------
\* Jumps out of range (checked under SpecJump)

\* C16 as stated: jump(offset) never fails, for any cursor and any offset;
\* when the cursor it leaves is not an index of the function, the next step
\* returns the implicit Return with no error and changes nothing; when it is
\* an index, the next step fetches the operation at that index.
C16_JumpNeverFails ==
    /\ [][\A d \in Offsets :
            JumpAnywhere(d) => (pc' = "idle" /\ result' = Running)]_vars
    /\ [][(Step /\ lastProc = "Jump"
              /\ ~(Cur.cursor >= 0 /\ Cur.cursor < Cur.function.nops))
            => (/\ pc' = "idle" /\ result'.t = "StepOk" /\ execIdx' = NoIdx
                /\ frames' = frames)]_vars
    /\ [][(Step /\ lastProc = "Jump"
              /\ Cur.cursor >= 0 /\ Cur.cursor < Cur.function.nops)
            => (pc' = "op" /\ execIdx' = <<Cur.cursor>>)]_vars

\* ------------------------------------------------------------------------
\* Further properties of run_until_exited (checked under SpecRun)

\* C13: in a run of run_until_exited every processed Call adds one frame to
\* the chain, at whatever depth, and the run goes on; every processed Return
\* removes exactly one frame; the chain is as deep as Calls minus Returns
\* plus one; no error arises except from an operation; and the Return of the
\* outermost frame ends the run with Exited and the returned value.
C13_CallChainUnwinds ==
    /\ [][\A a \in Actions :
            (a.kind = "Call" /\ Process(a))
               => /\ Len(frames') = Len(frames) + 1
                  /\ result' = Running /\ mode' = "run" /\ pc' = "idle"]_vars
    /\ [][\A a \in Actions :
            (a.kind = "Return" /\ Process(a))
               => /\ Len(frames') = Len(frames) - 1
                  /\ \A i \in 1..(Len(frames) - 2) : frames'[i] = frames[i]
                  /\ pc' = "idle"
                  /\ Len(frames) > 1 => (result' = Running /\ mode' = "run")
                  /\ Len(frames) = 1 => (result' = RunOk(a.v) /\ mode' = "manual")]_vars
    /\ [][(result'.t = "RunErr" /\ result.t # "RunErr") => pc = "op"]_vars
    /\ [](mode = "run" => (Len(frames) = callsNet + 1 /\ Len(frames) >= 1))
    /\ [](pc # "panic" /\ peak >= Len(frames))
    /\ [](result.t = "RunOk" => (frames = <<>> /\ callsNet = -1))

\* a run that went three frames deep and came back to Exited
C13_Witness ==
    /\ result = RunOk("mG") /\ mode = "manual"
    /\ peak = 3
    /\ frames = <<>> /\ callsNet = -1

\* C17 as stated: over the lifetime of a frame, across every step and every
\* processed action, the cursor of the frame never decreases.
C17_CursorNeverDecreases ==
    [][\A i \in 1..Len(frames) :
          i <= Len(frames') => frames'[i].cursor >= frames[i].cursor]_vars

\* C17 amended: the cursor of a frame is changed only by a step of the frame
\* that fetches an operation, which adds one, and by a processed Jump(d) on
\* the frame, which adds d; so it never decreases across steps and processed
\* None, Call, CallNative, Return and Jump(d) with d >= 0, and a processed
\* Jump(d) with d < 0 lowers it by -d.
C17_CursorDecreasesOnlyByBackwardJump ==
    /\ [][InStep
            => \A i \in 1..Len(frames) :
                  /\ frames'[i].cursor >= frames[i].cursor
                  /\ frames'[i].cursor <= frames[i].cursor + 1]_vars
    /\ [][\A a \in Actions :
            (Process(a) /\ a.kind # "Jump")
               => \A i \in 1..Len(frames) :
                     i <= Len(frames') => frames'[i].cursor = frames[i].cursor]_vars
    /\ [][\A a \in Actions :
            (Process(a) /\ a.kind = "Jump")
               => /\ Len(frames') = Len(frames)
                  /\ frames'[Len(frames)].cursor = Cur.cursor + a.d
                  /\ \A i \in 1..(Len(frames) - 1) : frames'[i] = frames[i]]_vars

\* the operation at index 0 has yielded Jump(-1) and the loop has processed it
C17_Witness ==
    /\ mode = "run" /\ lastProc = "Jump" /\ result = Running
    /\ jumpTarget = <<0>>
    /\ Cur.cursor = 0

\* ------------------------------------------------------------------------
\* The current frame and Exited (checked under Spec)

\* C19 as stated: a VM on which process has not yet returned Exited holds a
\* current frame, so no unwrap() in step or process meets an absent frame
\* before that; the current frame becomes absent only when process returns
\* Exited, and it is absent in every state after that.
C19_FrameAbsentIffExited ==
    /\ [][(frames # <<>> /\ frames' = <<>>) => result'.t = "Exited"]_vars
    /\ [](result.t = "Exited" => frames = <<>>)
    /\ [](pc = "panic" => frames = <<>>)
    /\ [][frames = <<>> => frames' = <<>>]_vars

\* ------------------------------------------------------------------------
\* Termination of run_until_exited (checked under SpecRunFair)

\* C20: a run of run_until_exited in which no Call and no Jump with a
\* negative offset is ever processed ends, with an error or with Exited,
\* and it has executed at most as many instructions as the outermost
\* function has operations, plus the implicit Return.
C20_ForwardRunTerminates ==
    /\ <>(mode = "manual" \/ fwd = NoIdx)
    /\ [](mode = "manual" => result.t \in {"RunOk", "RunErr"})
    /\ [][(fwd' # NoIdx /\ frames # <<>>)
            => fwd'[1] <= frames[1].function.nops + 1]_vars

\* a run of F without Call or backward Jump that took all nops + 1 steps
C20_Witness ==
    /\ mode = "manual" /\ result.t = "RunOk"
    /\ fwd = <<3>>
    /\ frames = <<>>

\* C20, second part: every run of run_until_exited ends.  Not so: an
\* operation that yields Jump(-1) is executed again and again.
C20_EveryRunTerminates == <>(mode = "manual")
====
